---- MODULE Spec2Model ----
(***************************************************************************)
(* Power-set / binary-string bijection visualisation                       *)
(* (src/bijection_mapping.py): the window PowerSetBijectionVisualization,  *)
(* its placement thread VisualizationWorker and the Qt event queue that    *)
(* carries the worker's `updated` signal back to the window.               *)
(*                                                                         *)
(* Text is modelled as a sequence of one-character strings, so that        *)
(* format(), int(s, 2), str(), split(), strip() and join() are computed    *)
(* character by character.  The subscript digits of the default labels are *)
(* written "1".."8" and the empty-set sign is written "#".                 *)
(***************************************************************************)
EXTENDS Integers, Sequences, FiniteSets, TLC

VARIABLES
    win,      \* the window: its data model (lines 92-100) and widget values
    threads,  \* every VisualizationWorker created so far, in creation order
    posted,   \* queued `updated` emissions waiting in the main event loop
    canvas,   \* what draw_visualization last put on the axes
    drawn,    \* history: creation numbers of the results handed to draw_visualization
    closed    \* closeEvent has accepted the close

vars == <<win, threads, posted, canvas, drawn, closed>>

(***************************************************************************)
(* Bounds of the model                                                     *)
(***************************************************************************)
\* largest value the user gives the size spinner in the full-window model
MaxSize == 2
\* most workers created in one behaviour (the constructor creates two)
MaxLaunch == 4
\* largest point index a pick event delivers
MaxPick == 1
\* last table row the user clicks
MaxRow == 1
\* largest base set handed to a worker in the worker-only model
MaxWorkerN == 3
\* most workers created in one behaviour of the window-handler model
MaxWindowLaunch == 6
\* largest point index a pick event delivers in the window-handler model
MaxWindowPick == 2
\* largest value the user gives the size spinner in the window-handler model
MaxWindowSize == 2

(***************************************************************************)
(* Program constants                                                       *)
(***************************************************************************)
SpinnerMin == 1
SpinnerMax == 6
ElementLimit == 6
SubscriptCount == 8

(***************************************************************************)
(* Python built-ins used by the program, computed on character sequences   *)
(***************************************************************************)
\* the one element of a one-element set.  Operators below bind a state to a
\* name with  Only({ ... s ... : s \in {state} }),  so that the state is
\* computed once and then used as a value.
Only(S) == CHOOSE x \in S : TRUE

Min(a, b) == IF a < b THEN a ELSE b

Max(a, b) == IF a < b THEN b ELSE a

\* a variant that multiplies instead of raising to the power
Pow2_product(n) == 2 * n

\* 2 ** n
Pow2(n) == 2 ^ n

Digits == <<"0", "1", "2", "3", "4", "5", "6", "7", "8", "9">>

\* format(i, 'b'): the binary digits of i, most significant first, no padding
RECURSIVE bin(_)
bin(i) == IF i < 2 THEN <<Digits[i + 1]>> ELSE bin(i \div 2) \o <<Digits[(i % 2) + 1]>>

\* "0" * k
zeros(k) == [j \in 1..k |-> "0"]

\* a variant that writes the least significant bit first
format_lsb_first(i, n) ==
    LET b == bin(i)
        padded == IF Len(b) >= n THEN b ELSE zeros(n - Len(b)) \o b
    IN [j \in 1..Len(padded) |-> padded[Len(padded) + 1 - j]]

\* format(i, f'0{n}b'): zero-padded on the left to width n, never truncated
format_0nb(i, n) ==
    LET b == bin(i) IN IF Len(b) >= n THEN b ELSE zeros(n - Len(b)) \o b

\* int(s, 2) for a non-empty string of binary digits
RECURSIVE int_base2(_)
int_base2(s) ==
    IF Len(s) = 0 THEN 0
    ELSE 2 * int_base2(SubSeq(s, 1, Len(s) - 1)) + (IF s[Len(s)] = "1" THEN 1 ELSE 0)

\* str(i) for i >= 0
RECURSIVE str(_)
str(i) == IF i < 10 THEN <<Digits[i + 1]>> ELSE str(i \div 10) \o <<Digits[(i % 10) + 1]>>

\* sep.join(parts)
RECURSIVE join(_, _)
join(sep, parts) ==
    IF Len(parts) = 0 THEN <<>>
    ELSE IF Len(parts) = 1 THEN parts[1]
    ELSE parts[1] \o sep \o join(sep, Tail(parts))

\* text.split(","): the pieces between commas, empty pieces included
RECURSIVE split(_)
split(text) ==
    IF \A k \in 1..Len(text) : text[k] # ","
    THEN <<text>>
    ELSE LET c == CHOOSE k \in 1..Len(text) :
                      text[k] = "," /\ \A j \in 1..(k - 1) : text[j] # ","
         IN <<SubSeq(text, 1, c - 1)>> \o split(SubSeq(text, c + 1, Len(text)))

\* e.strip(): leading and trailing blanks removed
RECURSIVE strip(_)
strip(e) ==
    IF Len(e) = 0 THEN e
    ELSE IF e[1] = " " THEN strip(Tail(e))
    ELSE IF e[Len(e)] = " " THEN strip(SubSeq(e, 1, Len(e) - 1))
    ELSE e

\* [item.strip() for item in pieces] (line 304)
stripped_all(pieces) == [k \in 1..Len(pieces) |-> strip(pieces[k])]

\* a variant that keeps the empty pieces
stripped_keeping_empty(pieces) == [k \in 1..Len(pieces) |-> strip(pieces[k])]

\* [e.strip() for e in pieces if e.strip()] (line 245)
RECURSIVE stripped_nonempty(_)
stripped_nonempty(pieces) ==
    IF Len(pieces) = 0 THEN <<>>
    ELSE LET e == strip(pieces[1])
         IN (IF Len(e) > 0 THEN <<e>> ELSE <<>>) \o stripped_nonempty(Tail(pieces))

(***************************************************************************)
(* VisualizationWorker (lines 23-67)                                       *)
(*                                                                         *)
(* A point on the sphere is kept as the two angles that determine it: the  *)
(* polar angle ("pi/3" or "pi - pi/3") and the azimuth theta =             *)
(* (i / 2^n) * 2 pi, written as the fraction <<i, 2^n>> of a full turn.    *)
(***************************************************************************)
\* a variant whose azimuth also depends on the polar angle
sphere_point_shifted(polar, i, n) ==
    [polar |-> polar, turn |-> <<IF polar = "pi/3" THEN i ELSE i + 1, Pow2(n)>>]

sphere_point(polar, i, n) == [polar |-> polar, turn |-> <<i, Pow2(n)>>]

\* __init__ (lines 27-32): the arguments are stored; the thread is not started.
\* checks and joined are history fields: the value the interruption flag had
\* at each place where run is to read it (lines 40 and 57), and whether a
\* caller has waited for this thread while it was running.
VisualizationWorker(base_set, current_index, show_labels, show_connections) ==
    [ base_set |-> base_set, current_index |-> current_index,
      show_labels |-> show_labels, show_connections |-> show_connections,
      running |-> FALSE, pc |-> "new", interruption |-> FALSE,
      n |-> 0, i |-> 0, power_set_positions |-> <<>>, binary_positions |-> <<>>,
      checks |-> <<>>, joined |-> FALSE ]

\* QThread.start(): isRunning() is true from here until run has returned
start(t) == [t EXCEPT !.running = TRUE, !.pc = "start"]

\* QThread.isRunning()
isRunning(t) == t.running

\* a variant in which the worker reads the window's current base set
worker_base_set_live(t, w) == w.base_set

\* self.base_set as run reads it (line 35): the list given to __init__ (line 29).
\* The window rebinds its own base_set (lines 237, 247) and never changes a
\* list in place, so the worker's list stays the one of the launch.
worker_base_set(t, w) == t.base_set

\* a variant that reports the first index as the selected one
emitted_args_first_index(t, w, id) ==
    [ id |-> id, power_set_positions |-> t.power_set_positions,
      binary_positions |-> t.binary_positions, n |-> t.n,
      current_index |-> 0, show_labels |-> t.show_labels,
      show_connections |-> t.show_connections ]

\* a variant of the last check that emits without looking at the flag
final_check_skipped(t) == FALSE

\* isInterruptionRequested() before the emit (line 57)
final_check(t) == t.interruption

\* the arguments of self.updated.emit (lines 60-67); id is the creation number
\* of the emitting worker, a history value the program does not have
emitted_args(t, w, id) ==
    [ id |-> id, power_set_positions |-> t.power_set_positions,
      binary_positions |-> t.binary_positions, n |-> t.n,
      current_index |-> t.current_index, show_labels |-> t.show_labels,
      show_connections |-> t.show_connections ]

\* run returns (lines 41, 58, 67): its locals are gone, isRunning() is false
returned(t) ==
    [t EXCEPT !.pc = "done", !.running = FALSE, !.n = 0, !.i = 0,
              !.power_set_positions = <<>>, !.binary_positions = <<>>]

\* One step of run (lines 34-67) of worker number id, the window being w:
\* the thread after the step and the emissions the step makes (none or one).
run_step(thread, w, id) == Only({
    IF t.pc = "start" THEN
        \* lines 35-37
        [ thread |-> [t EXCEPT !.pc = "loop", !.n = Len(worker_base_set(t, w)), !.i = 0,
                               !.power_set_positions = <<>>, !.binary_positions = <<>>],
          emit |-> <<>> ]
    ELSE IF t.pc = "loop" /\ t.i < Pow2(t.n) THEN
        \* lines 38-54: one iteration, the flag read first
        IF t.interruption
        THEN [ thread |-> returned([t EXCEPT !.checks = Append(@, TRUE)]),
               emit |-> <<>> ]
        ELSE [ thread |-> [t EXCEPT !.i = t.i + 1,
                                    !.power_set_positions = Append(@, sphere_point("pi/3", t.i, t.n)),
                                    !.binary_positions = Append(@, sphere_point("pi - pi/3", t.i, t.n)),
                                    !.checks = Append(@, FALSE)],
               emit |-> <<>> ]
    ELSE IF t.pc = "loop" THEN
        \* lines 56-67: the range is exhausted; last check, then the emit
        [ thread |-> returned([t EXCEPT !.checks = Append(@, t.interruption)]),
          emit |-> IF final_check(t) THEN <<>> ELSE <<emitted_args(t, w, id)>> ]
    ELSE [ thread |-> t, emit |-> <<>> ]
    : t \in {thread} })

\* QThread.requestInterruption(): sets the flag isInterruptionRequested reads
requestInterruption(t) == [t EXCEPT !.interruption = TRUE]

\* QThread.quit() (lines 321, 448): asks the thread's event loop to exit.  run
\* never enters an event loop, so the call changes nothing; in particular it
\* does not set the interruption flag.
quit(t) == t

\* `count` further steps of run, from the thread and the emissions in r; a
\* step of a thread that has returned changes nothing
RECURSIVE run_steps(_, _, _, _)
run_steps(r, w, id, count) == Only({
    IF count = 0 \/ ~r0.thread.running THEN r0
    ELSE IF count = 1
    THEN Only({ [thread |-> s.thread, emit |-> r0.emit \o s.emit]
                : s \in {run_step(r0.thread, w, id)} })
    ELSE run_steps(run_steps(r0, w, id, count \div 2), w, id, count - (count \div 2))
    : r0 \in {r} })

\* run continued to its end: the thread and everything it emits on the way.
\* run takes one step to set up, one per index of a base set of at most
\* ElementLimit elements, and one for the last check and the emit.
run_to_end(thread, w, id) ==
    run_steps([thread |-> thread, emit |-> <<>>], w, id, Pow2(ElementLimit) + 2)

(***************************************************************************)
(* The enumeration of update_power_set and the subset lookup shared with   *)
(* draw_visualization                                                      *)
(***************************************************************************)
EmptySetSign == <<"#">>

\* a variant that reads the bits from the least significant end
RECURSIVE subset_from_lsb(_, _, _, _)
subset_from_lsb(base_set, binary, n, from) ==
    IF from > n THEN [ok |-> TRUE, subset |-> <<>>]
    ELSE IF binary[n + 1 - from] # "1" THEN subset_from_lsb(base_set, binary, n, from + 1)
    ELSE IF from > Len(base_set) THEN [ok |-> FALSE, subset |-> <<>>]
    ELSE LET rest == subset_from_lsb(base_set, binary, n, from + 1)
         IN [ok |-> rest.ok, subset |-> <<base_set[from]>> \o rest.subset]

\* [base_set[j] for j in range(n) if binary[j] == '1'] (lines 265, 355), j
\* running upwards from `from`; ok is false when base_set[j] is out of range
RECURSIVE subset_from(_, _, _, _)
subset_from(base_set, binary, n, from) ==
    IF from > n THEN [ok |-> TRUE, subset |-> <<>>]
    ELSE IF binary[from] # "1" THEN subset_from(base_set, binary, n, from + 1)
    ELSE IF from > Len(base_set) THEN [ok |-> FALSE, subset |-> <<>>]
    ELSE LET rest == subset_from(base_set, binary, n, from + 1)
         IN [ok |-> rest.ok, subset |-> <<base_set[from]>> \o rest.subset]

\* the empty-set sign, or "{" + ", ".join(subset) + "}" (lines 268-271, 356)
subset_string(subset) ==
    IF Len(subset) = 0 THEN EmptySetSign
    ELSE <<"{">> \o join(<<",", " ">>, subset) \o <<"}">>

\* the list power_set built by lines 257-273
power_set(base_set) ==
    LET n == Len(base_set)
    IN [k \in 1..Pow2(n) |->
          Only({ Only({ [ subset |-> subset, subset_str |-> subset_string(subset),
                          binary |-> binary, decimal |-> k - 1 ]
                        : subset \in {subset_from(base_set, binary, n, 1).subset} })
                 : binary \in {format_0nb(k - 1, n)} })]

(***************************************************************************)
(* The window.  An operator on a state [win, threads, posted, canvas,      *)
(* drawn, closed] returns the state in which the handler leaves the        *)
(* program, every slot it triggers synchronously included.  The captions   *)
(* of labels and buttons are not kept.                                     *)
(***************************************************************************)
\* a queued connection that puts the newest emission first
post_first(queue, emits) == emits \o queue

\* updated -> draw_visualization (line 336): the emission is made in the
\* worker's thread and the window lives in the main thread, so the call is
\* queued in the main event loop, first in first out
post(queue, emits) == queue \o emits

\* a wait that returns at once
wait_detached(state, k) == [state EXCEPT !.threads[k].joined = TRUE]

\* QThread.wait() (lines 322, 449): blocks the main thread until run of
\* worker k has returned; what run emits meanwhile is queued
wait(state, k) == Only({
    Only({ [m EXCEPT !.threads[k] = [r.thread EXCEPT !.joined = TRUE],
                     !.posted = post(@, r.emit)]
           : r \in {run_to_end(m.threads[k], m.win, k)} })
    : m \in {state} })

\* lines 319-322 (and 446-449); win.worker = 0 stands for None
stop_previous_worker(state) == Only({
    LET k == m.win.worker
    IN IF k # 0 /\ isRunning(m.threads[k])
       THEN wait([m EXCEPT !.threads[k] = quit(@)], k)
       ELSE m
    : m \in {state} })

\* lines 323-337
launch_worker(state) == Only({
    LET cb == m.win.current_binary
        current_index == IF Len(cb) > 0 THEN int_base2(cb) ELSE 0
        worker == VisualizationWorker(m.win.base_set, current_index,
                                      m.win.show_labels_checkbox,
                                      m.win.show_connections_checkbox)
    IN [m EXCEPT !.threads = Append(@, start(worker)),
                 !.win.worker = Len(m.threads) + 1]
    : m \in {state} })

\* a variant that starts the new worker without stopping the previous one
update_3d_visualization_unjoined(state) == launch_worker(state)

\* lines 318-337
update_3d_visualization(state) == launch_worker(stop_previous_worker(state))

\* lines 289-316, for a selection whose first index is in `row`
table_selection_changed(state, row) == Only({
    LET subset_str == m.win.power_set_table[row + 1].subset
        binary_str == m.win.power_set_table[row + 1].binary
        subset_content == strip(SubSeq(subset_str, 2, Len(subset_str) - 1))
        selected_subset ==
            IF subset_str = EmptySetSign THEN <<>>
            ELSE IF Len(subset_content) > 0 THEN stripped_all(split(subset_content))
            ELSE <<>>
    IN update_3d_visualization(
           [m EXCEPT !.win.selected_subset = selected_subset,
                     !.win.current_binary = binary_str])
    : m \in {state} })

\* QTableWidget.selectRow (lines 286, 411, 432): a row outside the table is
\* ignored; selecting the selected row changes nothing; otherwise the
\* selection model emits selectionChanged, connected at line 189
selectRow(state, row) == Only({
    IF row < 0 \/ row >= Len(m.win.power_set_table) THEN m
    ELSE IF row = m.win.table_selection THEN m
    ELSE table_selection_changed([m EXCEPT !.win.table_selection = row], row)
    : m \in {state} })

\* the first row whose binary text is `binary` (lines 283-287, 409-412), then
\* selectRow on it
select_matching_row(state, binary) == Only({
    LET hits == {r \in 0..(Len(m.win.power_set_table) - 1) :
                    m.win.power_set_table[r + 1].binary = binary}
    IN IF hits = {} THEN m
       ELSE selectRow(m, CHOOSE r \in hits : \A q \in hits : r <= q)
    : m \in {state} })

\* lines 255-287.  setRowCount drops the selection of a removed row; the
\* selectionChanged it emits then has no selected index (line 291).
update_power_set(state) == Only({
    Only({ select_matching_row(
               [m EXCEPT !.win.power_set_table =
                             [k \in 1..Len(ps) |->
                                 [ subset |-> ps[k].subset_str, binary |-> ps[k].binary,
                                   decimal |-> str(ps[k].decimal) ]],
                         !.win.table_selection = IF @ >= Len(ps) THEN -1 ELSE @],
               m.win.current_binary)
           : ps \in {power_set(m.win.base_set)} })
    : m \in {state} })

Subscripts == <<"1", "2", "3", "4", "5", "6", "7", "8">>

RECURSIVE set_size_changed(_, _)
RECURSIVE elements_changed(_, _)
RECURSIVE setText(_, _)
RECURSIVE setValue(_, _)

\* QLineEdit.setText (line 238): textChanged, connected to elements_changed at
\* line 137, is emitted only when the text differs from the one shown
setText(state, text) == Only({
    IF text = m.win.elements_input THEN m
    ELSE elements_changed([m EXCEPT !.win.elements_input = text], text)
    : m \in {state} })

\* QSpinBox.setValue (line 249): the value is brought into the range set at
\* line 126; valueChanged, connected to set_size_changed at line 128, is
\* emitted only when the value changes
setValue(state, value) == Only({
    LET v == Max(SpinnerMin, Min(SpinnerMax, value))
    IN IF v = m.win.size_spinner THEN m
       ELSE set_size_changed([m EXCEPT !.win.size_spinner = v], v)
    : m \in {state} })

\* lines 239-240
clear_selection_to(state, width) ==
    [state EXCEPT !.win.selected_subset = <<>>, !.win.current_binary = zeros(width)]

\* lines 250-251
clear_selection(state) == Only({
    [m EXCEPT !.win.selected_subset = <<>>,
              !.win.current_binary = zeros(m.win.set_size)]
    : m \in {state} })

\* lines 233-242
set_size_changed(state, value) == Only({
    LET base_set == [i \in 1..Min(value, SubscriptCount) |-> <<"x", Subscripts[i]>>]
    IN update_3d_visualization(update_power_set(clear_selection_to(
           setText([m EXCEPT !.win.set_size = value, !.win.base_set = base_set],
                   join(<<",", " ">>, base_set)),
           value)))
    : m \in {state} })

\* a variant that leaves the table as it is
elements_changed_stale_table(state, text) == Only({
    IF Len(elements) > 0
    THEN LET base_set == SubSeq(elements, 1, Min(Len(elements), ElementLimit))
         IN update_3d_visualization(clear_selection(
                setValue([m EXCEPT !.win.base_set = base_set,
                                   !.win.set_size = Len(base_set)],
                         Len(base_set))))
    ELSE m
    : elements \in {stripped_nonempty(split(text))}, m \in {state} })

\* a variant that keeps every label of the text
elements_changed_unlimited(state, text) == Only({
    IF Len(elements) > 0
    THEN update_3d_visualization(update_power_set(clear_selection(
             setValue([m EXCEPT !.win.base_set = elements,
                                !.win.set_size = Len(elements)],
                      Len(elements)))))
    ELSE m
    : elements \in {stripped_nonempty(split(text))}, m \in {state} })

\* lines 244-253
elements_changed(state, text) == Only({
    IF Len(elements) > 0
    THEN LET base_set == SubSeq(elements, 1, Min(Len(elements), ElementLimit))
         IN update_3d_visualization(update_power_set(clear_selection(
                setValue([m EXCEPT !.win.base_set = base_set,
                                   !.win.set_size = Len(base_set)],
                         Len(base_set)))))
    ELSE m
    : elements \in {stripped_nonempty(split(text))}, m \in {state} })

\* the axes before anything has been drawn on them
blank_canvas ==
    [ n |-> 0, current_index |-> 0, show_labels |-> FALSE, base_len |-> 0,
      power_set_nodes |-> 0, binary_nodes |-> 0, connections |-> 0,
      base_set_label |-> <<>>, raised |-> FALSE, shown |-> FALSE ]

\* the subsets draw_visualization looks up for the points 0 .. count - 1
\* (lines 354-355): ok is false where base_set[j] is out of range
drawn_subsets(base_set, n, count) ==
    [k \in 1..count |-> subset_from(base_set, format_0nb(k - 1, n), n, 1)]

\* lines 339-398 for the queued emission e.  Of the artists put on the axes
\* their numbers are kept; base_len is a history field, the length of
\* self.base_set when the call was made.  When base_set[j] (line 355) or
\* power_set_positions[i] (line 382) is out of range the slot raises
\* IndexError: the axes keep what was plotted before and canvas.draw() is
\* not reached.
draw_visualization(state, e) == Only({ Only({
    LET count == Len(e.power_set_positions)
        bad == {k \in 1..count : ~sub[k].ok}
        short == e.show_connections
                 /\ (Pow2(e.n) > count \/ Pow2(e.n) > Len(e.binary_positions))
        partial == [ n |-> e.n, current_index |-> e.current_index,
                     show_labels |-> e.show_labels,
                     base_len |-> Len(m.win.base_set),
                     power_set_nodes |-> IF bad = {} THEN count
                                         ELSE (CHOOSE k \in bad : \A q \in bad : k <= q) - 1,
                     binary_nodes |-> 0, connections |-> 0,
                     base_set_label |-> <<>>, raised |-> TRUE, shown |-> FALSE ]
    IN [m EXCEPT !.drawn = Append(@, e.id),
                 !.canvas =
                    IF bad # {} THEN partial
                    ELSE IF short
                    THEN [partial EXCEPT !.binary_nodes = Len(e.binary_positions)]
                    ELSE [partial EXCEPT
                             !.binary_nodes = Len(e.binary_positions),
                             !.connections = IF e.show_connections THEN Pow2(e.n) ELSE 0,
                             !.base_set_label = join(<<",", " ">>, m.win.base_set),
                             !.raised = FALSE, !.shown = TRUE]]
    : sub \in {drawn_subsets(m.win.base_set, e.n, Len(e.power_set_positions))} })
    : m \in {state} })

\* lines 400-414 for a pick whose event.ind is the index ind or a list that
\* starts with it.  (For any other event.ind, format at line 406 raises before
\* anything is changed.)
on_pick(state, ind) == Only({
    LET binary == format_0nb(ind, Len(m.win.base_set))
    IN update_3d_visualization(
           select_matching_row([m EXCEPT !.win.current_binary = binary], binary))
    : m \in {state} })

\* lines 416-425.  Of the animation timer only isActive() is kept, not its
\* interval.
toggle_animation(state) == Only({
    IF m.win.animation_running
    THEN [m EXCEPT !.win.timer_active = FALSE, !.win.animation_running = FALSE]
    ELSE [m EXCEPT !.win.animation_index = 0, !.win.timer_active = TRUE,
                   !.win.animation_running = TRUE]
    : m \in {state} })

\* a variant that counts on without wrapping round
next_animation_step_unwrapped(state) == Only({
    LET next_index == m.win.animation_index + 1
    IN selectRow([m EXCEPT !.win.animation_index = next_index], next_index)
    : m \in {state} })

\* lines 427-432
next_animation_step(state) == Only({
    LET n == Pow2(Len(m.win.base_set))
        next_index == (m.win.animation_index + 1) % n
    IN selectRow([m EXCEPT !.win.animation_index = next_index], next_index)
    : m \in {state} })

Speeds == <<2000, 1000, 500>>

\* lines 434-439
speed_changed(state, index) == Only({
    IF m.win.animation_running
    THEN [m EXCEPT !.win.animation_speed = Speeds[index + 1],
                   !.win.timer_active = TRUE]
    ELSE [m EXCEPT !.win.animation_speed = Speeds[index + 1]]
    : m \in {state} })

\* lines 450-452
stop_animation_timer(state) == Only({
    IF m.win.animation_running THEN [m EXCEPT !.win.timer_active = FALSE] ELSE m
    : m \in {state} })

\* a variant that leaves the timer running
closeEvent_timer_left(state) ==
    [stop_previous_worker(state) EXCEPT !.closed = TRUE]

\* lines 445-453
closeEvent(state) ==
    [stop_animation_timer(stop_previous_worker(state)) EXCEPT !.closed = TRUE]

\* the data model of lines 86-100 and the widget values init_ui gives before
\* it connects the handlers (lines 126-127, 135, 147, 156, 159, 183-189), for
\* the base set of line 92
data_model(base_set) ==
    [ win |-> [ base_set |-> base_set, set_size |-> Len(base_set),
                selected_subset |-> <<>>, current_binary |-> zeros(Len(base_set)),
                animation_speed |-> 1000, animation_index |-> 0,
                animation_running |-> FALSE, worker |-> 0, timer_active |-> FALSE,
                size_spinner |-> Len(base_set),
                elements_input |-> join(<<",", " ">>, base_set),
                speed_combo |-> 1,
                show_labels_checkbox |-> TRUE, show_connections_checkbox |-> TRUE,
                power_set_table |-> <<>>, table_selection |-> -1 ],
      threads |-> <<>>, posted |-> <<>>, canvas |-> blank_canvas,
      drawn |-> <<>>, closed |-> FALSE ]

\* __init__ (lines 71-107)
constructed ==
    update_3d_visualization(update_power_set(
        data_model(<< <<"x", "1">>, <<"x", "2">>, <<"x", "3">> >>)))

(***************************************************************************)
(* The full program: events of the main loop and steps of the workers      *)
(***************************************************************************)
M == [ win |-> win, threads |-> threads, posted |-> posted,
       canvas |-> canvas, drawn |-> drawn, closed |-> closed ]

Commit(state) ==
    \E m \in {state} :
    /\ win' = m.win
    /\ threads' = m.threads
    /\ posted' = m.posted
    /\ canvas' = m.canvas
    /\ drawn' = m.drawn
    /\ closed' = m.closed

\* a handler runs only where the workers it creates stay within MaxLaunch
CanLaunch == Len(threads) < MaxLaunch

Handle(state) == \E m \in {state} : Len(m.threads) <= MaxLaunch /\ Commit(m)

\* texts the user leaves in the element field: "a,b,c", "a" and ","
Texts == { <<"a", ",", "b", ",", "c">>, <<"a">>, <<",">> }

Init ==
    \E m \in {constructed} :
        /\ win = m.win
        /\ threads = m.threads
        /\ posted = m.posted
        /\ canvas = m.canvas
        /\ drawn = m.drawn
        /\ closed = m.closed

\* the user changes the size spinner (valueChanged, line 128)
SizeSpinnerChanged ==
    /\ ~closed
    /\ CanLaunch
    /\ \E value \in SpinnerMin..Min(MaxSize, SpinnerMax) :
          /\ value # win.size_spinner
          /\ Handle(set_size_changed([M EXCEPT !.win.size_spinner = value], value))

\* the user edits the element field (textChanged, line 137)
ElementsEdited ==
    /\ ~closed
    /\ \E text \in Texts :
          /\ text # win.elements_input
          /\ Handle(elements_changed([M EXCEPT !.win.elements_input = text], text))

\* the user clicks a table row (selectionChanged, line 189)
TableRowClicked ==
    /\ ~closed
    /\ CanLaunch
    /\ \E row \in 0..Min(MaxRow, Len(win.power_set_table) - 1) :
          /\ row # win.table_selection
          /\ Handle(selectRow(M, row))

\* the user clicks a plotted point (pick_event, line 201)
PointPicked ==
    /\ ~closed
    /\ CanLaunch
    /\ \E ind \in 0..MaxPick : Handle(on_pick(M, ind))

\* the user toggles "Show Labels" (stateChanged, line 157)
ShowLabelsToggled ==
    /\ ~closed
    /\ CanLaunch
    /\ Handle(update_3d_visualization(
                 [M EXCEPT !.win.show_labels_checkbox = ~win.show_labels_checkbox]))

\* the user toggles "Show Connections" (stateChanged, line 160)
ShowConnectionsToggled ==
    /\ ~closed
    /\ CanLaunch
    /\ Handle(update_3d_visualization(
                 [M EXCEPT !.win.show_connections_checkbox = ~win.show_connections_checkbox]))

\* the user clicks the animation button (clicked, line 144)
AnimationButtonClicked ==
    /\ ~closed
    /\ Handle(toggle_animation(M))

\* the animation timer fires (timeout, line 98)
TimerTimeout ==
    /\ ~closed
    /\ win.timer_active
    /\ Handle(next_animation_step(M))

\* the user picks another speed (currentIndexChanged, line 148)
SpeedComboChanged ==
    /\ ~closed
    /\ \E index \in 0..(Len(Speeds) - 1) :
          /\ index # win.speed_combo
          /\ Handle(speed_changed([M EXCEPT !.win.speed_combo = index], index))

\* the main loop delivers the oldest queued emission to draw_visualization
UpdatedDelivered ==
    /\ Len(posted) > 0
    /\ Commit(draw_visualization([M EXCEPT !.posted = Tail(@)], Head(posted)))

\* a running worker takes one step of run
WorkerRuns ==
    \E k \in 1..Len(threads) :
        /\ threads[k].running
        /\ LET s == run_step(threads[k], win, k)
           IN Commit([M EXCEPT !.threads[k] = s.thread, !.posted = post(@, s.emit)])

\* the user closes the window
WindowClosed ==
    /\ ~closed
    /\ Commit(closeEvent(M))

Next ==
    \/ SizeSpinnerChanged
    \/ ElementsEdited
    \/ TableRowClicked
    \/ PointPicked
    \/ ShowLabelsToggled
    \/ ShowConnectionsToggled
    \/ AnimationButtonClicked
    \/ TimerTimeout
    \/ SpeedComboChanged
    \/ UpdatedDelivered
    \/ WorkerRuns
    \/ WindowClosed

Spec == Init /\ [][Next]_vars

\* The configuration changes alone (size, labels, selection, display options)
\* with the workers and the main loop scheduled fairly: a started worker
\* eventually takes its next step and a queued emission is eventually
\* delivered.  The window stays open and the animation is not used.
NextLive ==
    \/ SizeSpinnerChanged
    \/ ElementsEdited
    \/ TableRowClicked
    \/ PointPicked
    \/ ShowLabelsToggled
    \/ ShowConnectionsToggled
    \/ UpdatedDelivered
    \/ WorkerRuns

SpecLive ==
    Init /\ [][NextLive]_vars /\ WF_vars(WorkerRuns) /\ WF_vars(UpdatedDelivered)

(***************************************************************************)
(* One worker alone: run against a caller that may request interruption    *)
(* at any moment                                                           *)
(***************************************************************************)
WorkerBaseSets ==
    { [i \in 1..n |-> <<"x", Subscripts[i]>>] : n \in 1..MaxWorkerN }

InitWorker ==
    \E base_set \in WorkerBaseSets, current_index \in 0..1,
       show_labels \in BOOLEAN, show_connections \in BOOLEAN :
        \E m \in {data_model(base_set)} :
            /\ win = [m.win EXCEPT !.worker = 1]
            /\ threads = <<start(VisualizationWorker(base_set, current_index,
                                                     show_labels, show_connections))>>
            /\ posted = m.posted
            /\ canvas = m.canvas
            /\ drawn = m.drawn
            /\ closed = m.closed

\* some thread calls requestInterruption() on a running worker
InterruptionRequested ==
    \E k \in 1..Len(threads) :
        /\ threads[k].running
        /\ ~threads[k].interruption
        /\ Commit([M EXCEPT !.threads[k] = requestInterruption(@)])

NextWorker ==
    \/ WorkerRuns
    \/ InterruptionRequested

SpecWorker == InitWorker /\ [][NextWorker]_vars

(***************************************************************************)
(* The enumeration alone: update_power_set on a window whose table is      *)
(* still empty, for every base set of 1 to 6 labels "a" and "b"            *)
(***************************************************************************)
RECURSIVE LabelSeqs(_)
LabelSeqs(n) ==
    IF n = 0 THEN { <<>> }
    ELSE { Append(q, l) : q \in LabelSeqs(n - 1), l \in { <<"a">>, <<"b">> } }

EnumBaseSets == UNION { LabelSeqs(n) : n \in SpinnerMin..SpinnerMax }

InitEnum ==
    \E base_set \in EnumBaseSets :
        \E m \in {data_model(base_set)} :
            /\ win = m.win
            /\ threads = m.threads
            /\ posted = m.posted
            /\ canvas = m.canvas
            /\ drawn = m.drawn
            /\ closed = m.closed

\* update_power_set is called (line 106)
PowerSetUpdated ==
    /\ Len(win.power_set_table) = 0
    /\ Commit(update_power_set(M))

NextEnum == PowerSetUpdated

SpecEnum == InitEnum /\ [][NextEnum]_vars

(***************************************************************************)
(* The window's configuration and animation handlers over a wider range of *)
(* inputs: element texts with blanks, empty pieces, a repeated label and   *)
(* more labels than the limit, and pick indices beyond the table.  No      *)
(* handler reads a worker's progress or the drawn result, so the workers   *)
(* advance here only where a handler waits for them, and the delivery of   *)
(* their results is left to the full program above.                        *)
(***************************************************************************)
\* a handler runs only where the workers it creates stay within MaxWindowLaunch
Within(state) == \E m \in {state} : Len(m.threads) <= MaxWindowLaunch /\ Commit(m)

\* texts the user leaves in the element field: "", ", ", "a", "a,a",
\* " p , q " and "a,b,c,d,e,f,g"
WindowTexts ==
    { <<>>,
      <<",", " ">>,
      <<"a">>,
      <<"a", ",", "a">>,
      <<" ", "p", " ", ",", " ", "q", " ">>,
      <<"a", ",", "b", ",", "c", ",", "d", ",", "e", ",", "f", ",", "g">> }

InitWindow == Init

\* the user changes the size spinner (line 128)
SizeSpinnerSet ==
    /\ ~closed
    /\ \E value \in SpinnerMin..Min(MaxWindowSize, SpinnerMax) :
          /\ value # win.size_spinner
          /\ Within(set_size_changed([M EXCEPT !.win.size_spinner = value], value))

\* the user leaves another text in the element field (line 137)
ElementsTyped ==
    /\ ~closed
    /\ \E text \in WindowTexts :
          /\ text # win.elements_input
          /\ Within(elements_changed([M EXCEPT !.win.elements_input = text], text))

\* the user clicks a table row (line 189)
TableRowSelected ==
    /\ ~closed
    /\ \E row \in 0..Min(MaxRow, Len(win.power_set_table) - 1) :
          /\ row # win.table_selection
          /\ Within(selectRow(M, row))

\* a pick event arrives with an index (line 201)
PointPickedAt ==
    /\ ~closed
    /\ \E ind \in 0..MaxWindowPick : Within(on_pick(M, ind))

\* the user clicks the animation button (line 144)
AnimationToggled ==
    /\ ~closed
    /\ Within(toggle_animation(M))

\* the animation timer fires (line 98)
TimerTick ==
    /\ ~closed
    /\ win.timer_active
    /\ Within(next_animation_step(M))

\* the user picks another speed (line 148)
SpeedSet ==
    /\ ~closed
    /\ \E index \in 0..(Len(Speeds) - 1) :
          /\ index # win.speed_combo
          /\ Within(speed_changed([M EXCEPT !.win.speed_combo = index], index))

NextWindow ==
    \/ SizeSpinnerSet
    \/ ElementsTyped
    \/ TableRowSelected
    \/ PointPickedAt
    \/ AnimationToggled
    \/ TimerTick
    \/ SpeedSet
    \/ WindowClosed

SpecWindow == InitWindow /\ [][NextWindow]_vars

(***************************************************************************)
(* Properties                                                              *)
(***************************************************************************)
\* worker k was still running when update_3d_visualization started a later one
Superseded(k) == threads[k].joined /\ k < Len(threads)

\* the result of worker k has been handed to draw_visualization
Rendered(k) == \E j \in 1..Len(drawn) : drawn[j] = k

\* C1: when update_3d_visualization starts a computation while the previous
\* worker is still running, the previous worker's result never reaches
\* draw_visualization.
C1_SupersededResultNeverRendered ==
    \A k \in 1..Len(threads) : Superseded(k) => ~Rendered(k)

\* C2: results reach draw_visualization in the order in which their
\* computations were started; after a result has been rendered no result of
\* an earlier computation is rendered.
C2_RenderedInStartOrder ==
    \A i \in 1..Len(drawn) : \A j \in 1..Len(drawn) : i < j => drawn[i] < drawn[j]

\* three results have been rendered, the last from a computation started by an
\* event after construction
C2_Witness == Len(drawn) >= 3

\* C3: a worker that is still running when update_3d_visualization is called
\* has its interruption flag set and is joined before the new worker starts.
C3_SupersededWorkerInterruptedAndJoined ==
    \A k \in 1..Len(threads) :
        Superseded(k) => threads[k].interruption /\ ~threads[k].running

\* C4: at most one worker is running; every worker but the newest has finished.
C4_AtMostOneWorkerRunning ==
    \A k \in 1..Len(threads) : threads[k].running => k = Len(threads)

\* an event after construction found its predecessor running, joined it and
\* started a worker that is now running
C4_Witness ==
    /\ Len(threads) >= 4
    /\ threads[Len(threads)].running
    /\ threads[Len(threads) - 1].joined

\* worker k's emission is in the queue
Emitted(k) == \E j \in 1..Len(posted) : posted[j].id = k

\* C5: run reads the interruption flag once before each index and once more
\* before the emit; a run that reads the flag set returns without emitting,
\* and a run that emits has read it 2^n + 1 times and found it clear each time.
C5_InterruptionCheckedBeforeEachIndexAndEmit ==
    \A k \in 1..Len(threads) :
        LET t == threads[k]
            n == Len(t.base_set)
        IN /\ t.pc = "loop" => Len(t.checks) = t.i
           /\ Len(t.checks) <= 2 ^ n + 1
           /\ Emitted(k) =>
                 /\ t.pc = "done"
                 /\ Len(t.checks) = 2 ^ n + 1
                 /\ \A c \in 1..Len(t.checks) : ~t.checks[c]
           /\ \A c \in 1..Len(t.checks) :
                 t.checks[c] => /\ c = Len(t.checks)
                                /\ t.pc = "done" /\ ~t.running
                                /\ ~Emitted(k)

\* a run of a three-element base set was interrupted after it had computed
\* some indices, and returned without emitting
C5_Witness ==
    \E k \in 1..Len(threads) :
        /\ Len(threads[k].base_set) = 3
        /\ Len(threads[k].checks) >= 3
        /\ threads[k].checks[Len(threads[k].checks)]
        /\ threads[k].pc = "done"
        /\ ~Emitted(k)

\* C6: once closeEvent has returned no worker is running and the animation
\* timer is not active.
C6_ClosedWindowHasNoWorkerAndNoTimer ==
    closed => /\ \A k \in 1..Len(threads) : ~threads[k].running
              /\ ~win.timer_active

\* the window was closed while the animation ran and its worker was running
C6_Witness ==
    /\ closed
    /\ win.animation_running
    /\ threads[Len(threads)].joined

\* C7: every emitted result has 2^n power-set and 2^n binary positions for
\* the n of the base set given at launch, and carries the current_index,
\* show_labels and show_connections given at launch.
C7_EmissionIsLaunchSnapshot ==
    \A j \in 1..Len(posted) :
        LET e == posted[j]
            t == threads[e.id]
        IN /\ e.n = Len(t.base_set)
           /\ Len(e.power_set_positions) = 2 ^ e.n
           /\ Len(e.binary_positions) = 2 ^ e.n
           /\ e.current_index = t.current_index
           /\ e.show_labels = t.show_labels
           /\ e.show_connections = t.show_connections

\* a worker launched after construction was still running when a handler
\* replaced the window's base set by one of another length, and has emitted
C7_Witness ==
    \E j \in 1..Len(posted) :
        /\ posted[j].id >= 2
        /\ threads[posted[j].id].joined
        /\ posted[j].n # Len(win.base_set)

\* C8: the n of every result that reaches draw_visualization is at most the
\* length of self.base_set at that moment, so no base_set[j] is out of range.
C8_RenderedSizeWithinBaseSet ==
    ~canvas.raised /\ canvas.n <= canvas.base_len

\* C9: update_power_set yields exactly 2^n rows in the order i = 0 .. 2^n - 1,
\* whose binary strings have width n, are pairwise distinct and cover
\* 0 .. 2^n - 1; for n = 1 the rows are "0" with the empty set and "1" with
\* the single element.
C9_EnumerationComplete ==
    Len(win.power_set_table) > 0 =>
        LET rows == win.power_set_table
            n == Len(win.base_set)
        IN /\ Len(rows) = 2 ^ n
           /\ \A k \in 1..Len(rows) :
                 /\ Len(rows[k].binary) = n
                 /\ rows[k].decimal = str(k - 1)
           /\ \A k \in 1..Len(rows) : \A l \in 1..Len(rows) :
                 k # l => rows[k].binary # rows[l].binary
           /\ { int_base2(rows[k].binary) : k \in 1..Len(rows) } = 0..(2 ^ n - 1)
           /\ n = 1 =>
                 /\ rows[1].binary = <<"0">> /\ rows[1].subset = EmptySetSign
                 /\ rows[2].binary = <<"1">>
                 /\ rows[2].subset = <<"{">> \o win.base_set[1] \o <<"}">>

\* the table of a six-element base set has been filled
C9_Witness ==
    /\ Len(win.base_set) = SpinnerMax
    /\ Len(win.power_set_table) = 64

\* C10: the binary string of row i, read in base 2 as line 324 reads
\* current_binary, is i, the decimal value of the record.
C10_BinaryStringDecodesToIndex ==
    Len(win.power_set_table) > 0 =>
        \A k \in 1..Len(win.power_set_table) :
            /\ int_base2(win.power_set_table[k].binary) = k - 1
            /\ power_set(win.base_set)[k].decimal = k - 1

\* the table of a three-element base set holds "101" in row 5
C10_Witness ==
    /\ Len(win.base_set) = 3
    /\ Len(win.power_set_table) = 8
    /\ win.power_set_table[6].binary = <<"1", "0", "1">>
    /\ win.power_set_table[6].decimal = <<"5">>

\* the positions of the characters "1" in a binary string, counted from 1 at
\* its most significant end
OnePositions(binary) == {j \in 1..Len(binary) : binary[j] = "1"}

\* the p-th smallest member of a set of numbers
RECURSIVE Nth(_, _)
Nth(S, p) ==
    LET least == CHOOSE x \in S : \A y \in S : x <= y
    IN IF p = 1 THEN least ELSE Nth(S \ {least}, p - 1)

\* C11: in every record of update_power_set the element at base-set position
\* j is in the subset iff character j of the binary string, most significant
\* first, is "1", and the subset keeps base-set order; for three elements
\* record 5 has binary "101" and the subset of the first and third element.
C11_SubsetMatchesBits ==
    Len(win.power_set_table) > 0 =>
        LET ps == power_set(win.base_set)
        IN /\ \A k \in 1..Len(ps) :
                 LET ones == OnePositions(win.power_set_table[k].binary)
                 IN /\ ps[k].binary = win.power_set_table[k].binary
                    /\ Len(ps[k].subset) = Cardinality(ones)
                    /\ \A p \in 1..Len(ps[k].subset) :
                          ps[k].subset[p] = win.base_set[Nth(ones, p)]
                    /\ win.power_set_table[k].subset = subset_string(ps[k].subset)
           /\ Len(win.base_set) = 3 =>
                 /\ ps[6].binary = <<"1", "0", "1">>
                 /\ ps[6].subset = <<win.base_set[1], win.base_set[3]>>
                 /\ win.power_set_table[6].subset =
                        <<"{">> \o win.base_set[1] \o <<",", " ">> \o win.base_set[3] \o <<"}">>

\* the table of the base set a, b, b shows {a, b} in row 5
C11_Witness ==
    /\ win.base_set = << <<"a">>, <<"b">>, <<"b">> >>
    /\ Len(win.power_set_table) = 8
    /\ win.power_set_table[6].subset = <<"{", "a", ",", " ", "b", "}">>

C13_BaseSetLabelsDistinct ==
    \A i \in 1..Len(win.base_set) : \A j \in 1..Len(win.base_set) :
        i # j => win.base_set[i] # win.base_set[j]

\* C14: an element text that yields no non-empty label (empty, only commas
\* or blanks) is ignored: base_set, set_size, selected_subset, current_binary
\* and the table stay as they are and no worker is launched.
C14_TextWithoutLabelsIgnored ==
    [][ ( /\ win'.elements_input # win.elements_input
          /\ \A k \in 1..Len(win'.elements_input) :
                win'.elements_input[k] \in {",", " "} )
        => /\ win'.base_set = win.base_set
           /\ win'.set_size = win.set_size
           /\ win'.selected_subset = win.selected_subset
           /\ win'.current_binary = win.current_binary
           /\ win'.power_set_table = win.power_set_table
           /\ win'.worker = win.worker
           /\ threads' = threads ]_vars

\* the element field holds ", " and the two-element base set chosen before
\* is still in place
C14_Witness ==
    /\ win.elements_input = <<",", " ">>
    /\ win.base_set = << <<"x", "1">>, <<"x", "2">> >>
    /\ win.set_size = 2
    /\ Len(win.power_set_table) = 4

\* C15: between handlers the base set has 1 to 6 elements and set_size is its
\* length, also after an element text of more than 6 labels (its first 6 are
\* kept) and after any change of the spinner.
C15_SizeInRangeAndConsistent ==
    /\ 1 <= Len(win.base_set)
    /\ Len(win.base_set) <= 6
    /\ win.set_size = Len(win.base_set)

\* the text of seven labels a .. g was typed while the size was 6 and its
\* first six labels are the base set
C15_Witness ==
    /\ win.elements_input =
          <<"a", ",", "b", ",", "c", ",", "d", ",", "e", ",", "f", ",", "g">>
    /\ win.base_set = << <<"a">>, <<"b">>, <<"c">>, <<"d">>, <<"e">>, <<"f">> >>
    /\ win.set_size = 6

\* the placement of the 2^n points at one polar angle: point i at the
\* fraction i / 2^n of a full turn
Placement(polar, n) == [k \in 1..(2 ^ n) |-> [polar |-> polar, turn |-> <<k - 1, 2 ^ n>>]]

\* C16: the positions a worker emits depend only on the length n of its base
\* set: two emissions for the same n carry identical power-set and binary
\* position lists whatever labels, current_index, show_labels and
\* show_connections the workers were given, and point i has the azimuth
\* i / 2^n of a full turn in both lists.
C16_PlacementDependsOnlyOnSize ==
    /\ \A j \in 1..Len(posted) :
          /\ posted[j].power_set_positions = Placement("pi/3", posted[j].n)
          /\ posted[j].binary_positions = Placement("pi - pi/3", posted[j].n)
    /\ \A j \in 1..Len(posted) : \A l \in 1..Len(posted) :
          posted[j].n = posted[l].n =>
              /\ posted[j].power_set_positions = posted[l].power_set_positions
              /\ posted[j].binary_positions = posted[l].binary_positions

\* two emissions for three elements are queued whose workers were given
\* different labels and different flags
C16_Witness ==
    \E j \in 1..Len(posted) : \E l \in 1..Len(posted) :
        /\ posted[j].n = 3 /\ posted[l].n = 3
        /\ threads[posted[j].id].base_set # threads[posted[l].id].base_set
        /\ posted[j].show_labels # posted[l].show_labels

\* the elements of base_set at the positions where i has a one bit, position
\* 1 of an n-element base set standing for the bit of value 2^(n-1)
RECURSIVE MembersOf(_, _, _)
MembersOf(base_set, i, j) ==
    IF j > Len(base_set) THEN <<>>
    ELSE (IF (i \div (2 ^ (Len(base_set) - j))) % 2 = 1 THEN <<base_set[j]>> ELSE <<>>)
         \o MembersOf(base_set, i, j + 1)

\* C17: when set_size_changed or elements_changed (with at least one label)
\* and the slots they trigger have completed, the table holds the enumeration
\* of the current base set: 2^n rows, row i showing the subset of i, the
\* binary string of i in width n and the decimal value of i.
C17_TableIsEnumerationOfBaseSet ==
    LET n == Len(win.base_set)
        rows == win.power_set_table
    IN /\ Len(rows) = 2 ^ n
       /\ \A k \in 1..Len(rows) :
             /\ Len(rows[k].binary) = n
             /\ \A j \in 1..n :
                   rows[k].binary[j] =
                       (IF ((k - 1) \div (2 ^ (n - j))) % 2 = 1 THEN "1" ELSE "0")
             /\ rows[k].subset = subset_string(MembersOf(win.base_set, k - 1, 1))
             /\ rows[k].decimal = str(k - 1)

\* the text "a,a" was typed while the size was 2, and the table shows the
\* subsets of the labels typed
C17_Witness ==
    /\ win.base_set = << <<"a">>, <<"a">> >>
    /\ Len(win.power_set_table) = 4
    /\ win.power_set_table[4].subset = <<"{", "a", ",", " ", "a", "}">>

\* C19: when the element text is changed to a list of k non-empty labels,
\* 1 <= k <= 6, then after elements_changed and every slot it triggers have
\* completed base_set is exactly those k labels in the order given, also
\* when k differs from the previous set size.
C19_TypedLabelsBecomeBaseSet ==
    [][ \A text \in WindowTexts :
          LET labels == stripped_nonempty(split(text))
          IN ( /\ ~closed
               /\ text # win.elements_input
               /\ 1 <= Len(labels) /\ Len(labels) <= 6
               /\ M' = elements_changed([M EXCEPT !.win.elements_input = text], text) )
             => win'.base_set = labels ]_vars

\* C20: a tick of the animation timer sets animation_index to
\* (animation_index + 1) mod 2^len(base_set) and selects that row, which is a
\* row of the table also when the base set has shrunk since the tick before;
\* until the window is closed the timer is active exactly when
\* animation_running is true.
C20_AnimationTickSelectsValidRow ==
    /\ [](~closed => (win.timer_active <=> win.animation_running))
    /\ [][ (win.animation_running /\ win'.animation_index # win.animation_index)
            => /\ win'.animation_index =
                     (win.animation_index + 1) % (2 ^ Len(win.base_set))
               /\ win'.base_set = win.base_set
               /\ 0 <= win'.animation_index
               /\ win'.animation_index < Len(win'.power_set_table)
               /\ win'.table_selection = win'.animation_index ]_vars

\* a tick has selected row 1 of the two rows of a base set that was made
\* smaller after construction
C20_Witness ==
    /\ win.animation_running /\ win.timer_active
    /\ Len(win.base_set) = 1
    /\ win.animation_index = 1
    /\ win.table_selection = 1
    /\ win.current_binary = <<"1">>

\* the configuration a placement computation is given: size, selected index
\* and the two display options
Configuration(w) ==
    << Len(w.base_set), w.base_set, w.current_binary,
       w.show_labels_checkbox, w.show_connections_checkbox >>

\* the drawing on the axes is the complete drawing of the newest computation
\* and shows the window's current size, selected index and display options
CurrentConfigurationRendered ==
    /\ Len(drawn) > 0
    /\ drawn[Len(drawn)] = Len(threads)
    /\ canvas.shown
    /\ canvas.n = Len(win.base_set)
    /\ canvas.current_index =
          (IF Len(win.current_binary) > 0 THEN int_base2(win.current_binary) ELSE 0)
    /\ canvas.show_labels = win.show_labels_checkbox
    /\ canvas.connections =
          (IF win.show_connections_checkbox THEN 2 ^ Len(win.base_set) ELSE 0)

\* C18: every change of the configuration (size, labels, selection, display
\* option) launches a placement computation; and if from some point on no
\* handler runs, the window comes to show a result whose n, current_index,
\* show_labels and show_connections are those of the current configuration,
\* and that result is the last one rendered.
C18_ChangeIsEventuallyRendered ==
    /\ [][ Configuration(win') # Configuration(win) => Len(threads') > Len(threads) ]_vars
    /\ ( <>[][WorkerRuns \/ UpdatedDelivered]_vars
         => <>[]CurrentConfigurationRendered )

\* the labels were switched off and a row other than the first was selected
\* after construction, and the drawing shows both
C18_Witness ==
    /\ CurrentConfigurationRendered
    /\ ~win.show_labels_checkbox
    /\ canvas.current_index = 1
    /\ Len(drawn) >= 3

====
